---- MODULE Spec2Model ----
(***************************************************************************)
(* Model of md-to-pdf: the Markdown outline extractor, the fragment        *)
(* classifier, the structured-input variant and the three entry            *)
(* operations (md_to_slides, structure_to_slides, create_oreilly_style_pdf)*)
(*                                                                         *)
(* A text is a sequence of tokens.  Each of '#', ' ', '>', '-', '*', '+',  *)
(* ':' and the newline is a token of its own, a run of three backticks is  *)
(* one token, a digit is one token and a word is one token.  The regular   *)
(* expressions of the source are translated to scanners over tokens that   *)
(* follow Python's re semantics: leftmost match, greedy and lazy           *)
(* quantifiers, MULTILINE anchors, DOTALL, non-overlapping findall/split.  *)
(***************************************************************************)
EXTENDS Integers, Sequences, FiniteSets, TLC

VARIABLES op, pc, fileExists, content, opened, sections, slides, cover,
          written, error, bullet_points, quotes, code_blocks

vars == <<op, pc, fileExists, content, opened, sections, slides, cover,
          written, error, bullet_points, quotes, code_blocks>>

----------------------------------------------------------------------------
(* Bounds *)

MaxDocLines == 3

MaxStructLines == 4

MaxBodyLines == 3

----------------------------------------------------------------------------
(* Tokens and text primitives *)

NL == "\n"

\* a run of three backticks
FENCE == "FENCE"

Whitespace == {" ", NL, "\t"}

Digits == {"0", "1", "2", "3", "4", "5", "6", "7", "8", "9"}

\* a word that stands for a run of 200 non-blank characters
LongWord == "w200"

\* len() of one token, in characters
TokLen(t) ==
  CASE t = LongWord -> 200
    [] t = FENCE -> 3
    [] t = "python" -> 6
    [] t = "bash" -> 4
    [] t = "Slide" -> 5
    [] t = "Introdução" -> 10
    [] t = "Conclusão" -> 9
    [] t = "Pré-requisitos" -> 14
    [] t = "Subtítulo" -> 9
    [] t = "Tópicos" -> 7
    [] t = "Imagem" -> 6
    [] t = "Apresentação" -> 12
    [] t = "Agenda" -> 6
    [] OTHER -> 1

RECURSIVE StrLen(_)
StrLen(s) == IF s = <<>> THEN 0 ELSE TokLen(Head(s)) + StrLen(Tail(s))

Slice(s, a, b) == IF b < a THEN <<>> ELSE SubSeq(s, a, b)

\* the literal lit occurs in s at position i
HasAt(s, i, lit) ==
  /\ i >= 1
  /\ i + Len(lit) - 1 <= Len(s)
  /\ \A k \in 1..Len(lit) : s[i + k - 1] = lit[k]

\* '^' under re.MULTILINE: start of the text or just after a newline
IsLineStart(s, i) == i = 1 \/ (i > 1 /\ i <= Len(s) + 1 /\ s[i - 1] = NL)

\* '$' under re.MULTILINE: end of the text or just before a newline
AtLineEnd(s, i) == i > Len(s) \/ s[i] = NL

\* the first position at or after i where '$' matches: where '(.*?)$' stops
RECURSIVE LineEnd(_, _)
LineEnd(s, i) == IF AtLineEnd(s, i) THEN i ELSE LineEnd(s, i + 1)

\* the greedy '\s*': the first position at or after i that is not whitespace
RECURSIVE SkipSpace(_, _)
SkipSpace(s, i) ==
  IF i <= Len(s) /\ s[i] \in Whitespace THEN SkipSpace(s, i + 1) ELSE i

\* the first position at or after i where lit occurs, 0 when there is none
RECURSIVE Find(_, _, _)
Find(s, lit, i) ==
  IF i + Len(lit) - 1 > Len(s) THEN 0
  ELSE IF HasAt(s, i, lit) THEN i
  ELSE Find(s, lit, i + 1)

\* s in sub, for token sequences
Contains(s, sub) == Find(s, sub, 1) # 0

\* str.split(sep): the pieces between the non-overlapping occurrences of sep
RECURSIVE str_split(_, _)
str_split(s, sep) ==
  LET p == Find(s, sep, 1)
  IN IF p = 0 THEN <<s>>
     ELSE <<Slice(s, 1, p - 1)>> \o str_split(Slice(s, p + Len(sep), Len(s)), sep)

\* str.strip()
RECURSIVE lstrip(_)
lstrip(s) ==
  IF s # <<>> /\ Head(s) \in Whitespace THEN lstrip(Tail(s)) ELSE s

RECURSIVE rstrip(_)
rstrip(s) ==
  IF s # <<>> /\ s[Len(s)] \in Whitespace THEN rstrip(Slice(s, 1, Len(s) - 1)) ELSE s

strip(s) == lstrip(rstrip(s))

\* '\n'.join(lines)
RECURSIVE Join(_)
Join(lines) ==
  IF lines = <<>> THEN <<>>
  ELSE IF Len(lines) = 1 THEN lines[1]
  ELSE lines[1] \o <<NL>> \o Join(Tail(lines))

RECURSIVE Flatten(_)
Flatten(ss) == IF ss = <<>> THEN <<>> ELSE Head(ss) \o Flatten(Tail(ss))

----------------------------------------------------------------------------
(* Heading patterns: r'^# (.*?)$', r'^## (.*?)$', r'^### (.*?)$'           *)

h1_pattern == <<"#", " ">>

h2_pattern == <<"#", "#", " ">>

h3_pattern == <<"#", "#", "#", " ">>

\* the pattern '^<prefix>(.*?)$' matches at position i
HeadingAt(s, prefix, i) == IsLineStart(s, i) /\ HasAt(s, i, prefix)

\* the end of the match that starts at i
HeadingEnd(s, prefix, i) == LineEnd(s, i + Len(prefix))

\* group(1) of the match that starts at i
HeadingText(s, prefix, i) ==
  Slice(s, i + Len(prefix), HeadingEnd(s, prefix, i) - 1)

\* start positions of the non-overlapping matches found scanning from i
RECURSIVE HeadingStarts(_, _, _)
HeadingStarts(s, prefix, i) ==
  IF i > Len(s) THEN <<>>
  ELSE IF HeadingAt(s, prefix, i)
       THEN <<i>> \o HeadingStarts(s, prefix, HeadingEnd(s, prefix, i))
       ELSE HeadingStarts(s, prefix, i + 1)

\* re.findall(pattern, s, re.MULTILINE): the captured texts
re_findall(prefix, s) ==
  LET starts == HeadingStarts(s, prefix, 1)
  IN [k \in 1..Len(starts) |-> HeadingText(s, prefix, starts[k])]

\* re.search(pattern, s, re.MULTILINE): <<group(1)>> or <<>> for None
re_search(prefix, s) ==
  LET starts == HeadingStarts(s, prefix, 1)
  IN IF starts = <<>> THEN <<>> ELSE <<HeadingText(s, prefix, starts[1])>>

\* re.split(pattern, s, flags=re.MULTILINE) with one capturing group:
\* [before, text1, between1, text2, between2, ...]
re_split(prefix, s) ==
  LET starts == HeadingStarts(s, prefix, 1)
      n == Len(starts)
      piece(k) ==
        \* the text between the end of match k and the start of match k+1
        Slice(s,
              IF k = 0 THEN 1 ELSE HeadingEnd(s, prefix, starts[k]),
              IF k = n THEN Len(s) ELSE starts[k + 1] - 1)
  IN [j \in 1..(2 * n + 1) |->
        IF j % 2 = 1 THEN piece((j - 1) \div 2)
        ELSE HeadingText(s, prefix, starts[j \div 2])]

----------------------------------------------------------------------------
(* Outline extractor *)

DefaultTitle == <<"Apresentação">>

PdfDefaultTitle == <<"Documento", " ", "sem", " ", "título">>

\* the title of a mis-coded default, used to probe the Title node
main_title_pdf_default(text) ==
  LET title_match == re_search(h1_pattern, text)
  IN IF title_match # <<>> THEN title_match[1] ELSE PdfDefaultTitle

main_title(text) ==
  LET title_match == re_search(h1_pattern, text)
  IN IF title_match # <<>> THEN title_match[1] ELSE DefaultTitle

subtitle_of(text) ==
  LET parts == str_split(text, h1_pattern)
      first ==
        IF Len(parts) > 1
        THEN LET subtitle_match == re_search(h1_pattern, parts[2])
             IN IF subtitle_match # <<>> THEN subtitle_match[1] ELSE <<>>
        ELSE <<>>
  IN IF first # <<>> THEN first
     ELSE LET subtitle_match == re_search(h2_pattern, text)
          IN IF subtitle_match # <<>> THEN subtitle_match[1] ELSE <<>>

Excluded(title) ==
  \/ title = <<"Introdução">>
  \/ title = <<"Conclusão">>
  \/ Contains(title, <<"Pré-requisitos">>)

\* an agenda filter that compares the third keyword for equality too
extract_agenda_exact(text) ==
  SelectSeq(re_findall(h2_pattern, text),
            LAMBDA title : title \notin {<<"Introdução">>, <<"Conclusão">>,
                                         <<"Pré-requisitos">>})

extract_agenda(text) ==
  SelectSeq(re_findall(h2_pattern, text), LAMBDA title : ~Excluded(title))

extract_subsections(text) ==
  LET h3_titles == re_findall(h3_pattern, text)
      h3_contents == Tail(re_split(h3_pattern, text))
  IN IF h3_titles = <<>> THEN <<>>
     ELSE [i \in 1..Len(h3_titles) |->
             [title |-> h3_titles[i], content |-> h3_contents[i]]]

\* the Content nodes of a heading whose subsection nodes keep only the
\* level-3 text as title
SectionNodes_child_title(title, section_content) ==
  LET subsections == extract_subsections(section_content)
  IN IF subsections # <<>>
     THEN [k \in 1..Len(subsections) |->
             [type |-> "content",
              title |-> subsections[k].title,
              content |-> subsections[k].content]]
     ELSE <<[type |-> "content", title |-> title, content |-> section_content]>>

\* the Content nodes of one level-2 heading, given the text paired with it
SectionNodes(title, section_content) ==
  LET subsections == extract_subsections(section_content)
  IN IF subsections # <<>>
     THEN [k \in 1..Len(subsections) |->
             [type |-> "content",
              title |-> title \o <<" ", "-", " ">> \o subsections[k].title,
              content |-> subsections[k].content]]
     ELSE <<[type |-> "content", title |-> title, content |-> section_content]>>

extract_sections_from_md(text) ==
  LET h2_titles == re_findall(h2_pattern, text)
      h2_contents == Tail(re_split(h2_pattern, text))
  IN <<[type |-> "title", title |-> main_title(text), subtitle |-> subtitle_of(text)],
       [type |-> "agenda", title |-> <<"Agenda">>, content |-> extract_agenda(text)]>>
     \o Flatten([i \in 1..Len(h2_titles) |->
                   SectionNodes(h2_titles[i], h2_contents[i])])

\* title and subtitle of the cover in create_oreilly_style_pdf
pdf_cover(text) ==
  LET title_match == re_search(h1_pattern, text)
      parts == str_split(text, h1_pattern)
      first == re_search(h1_pattern, IF Len(parts) > 1 THEN parts[2] ELSE <<>>)
      subtitle_match == IF first # <<>> THEN first ELSE re_search(h2_pattern, text)
  IN [title |-> IF title_match # <<>> THEN title_match[1] ELSE PdfDefaultTitle,
      subtitle |-> IF subtitle_match # <<>> THEN subtitle_match[1] ELSE <<>>]

----------------------------------------------------------------------------
(* Fragment classifier *)

\* re.sub(r'```.*?```', '', s, flags=re.DOTALL)
RECURSIVE remove_code(_)
remove_code(s) ==
  LET p == Find(s, <<FENCE>>, 1)
      q == IF p = 0 THEN 0 ELSE Find(s, <<FENCE>>, p + 1)
  IN IF q = 0 THEN s
     ELSE Slice(s, 1, p - 1) \o remove_code(Slice(s, q + 1, Len(s)))

Markers == {"*", "-", "+"}

\* list_pattern = r'^\s*[\*\-\+]\s+(.*?)$' matches at i; BulletMark is the
\* position of the marker
BulletMark(s, i) == SkipSpace(s, i)

BulletAt(s, i) ==
  LET m == BulletMark(s, i)
  IN /\ IsLineStart(s, i)
     /\ m + 1 <= Len(s)
     /\ s[m] \in Markers
     /\ s[m + 1] \in Whitespace

\* where group(1) starts: after the greedy '\s+'
BulletTextStart(s, i) == SkipSpace(s, BulletMark(s, i) + 1)

RECURSIVE bullet_findall(_, _)
bullet_findall(s, i) ==
  IF i > Len(s) THEN <<>>
  ELSE IF BulletAt(s, i)
       THEN LET j == BulletTextStart(s, i)
                e == LineEnd(s, j)
            IN <<Slice(s, j, e - 1)>> \o bullet_findall(s, e)
       ELSE bullet_findall(s, i + 1)

startswith(s, lit) == HasAt(s, 1, lit)

short_paragraphs(s) ==
  LET stripped == [k \in 1..Len(str_split(s, <<NL, NL>>)) |->
                     strip(str_split(s, <<NL, NL>>)[k])]
      paragraphs == SelectSeq(stripped, LAMBDA p : p # <<>>)
  IN SelectSeq(paragraphs, LAMBDA p : StrLen(p) < 200 /\ ~startswith(p, <<"#">>))

extract_bullet_points(text) ==
  LET stripped == remove_code(text)
      bullet_matches == bullet_findall(stripped, 1)
  IN IF bullet_matches # <<>> THEN bullet_matches
     ELSE short_paragraphs(stripped)

\* code_pattern = r'```(?:python)?\n(.*?)\n```' with re.DOTALL matches at i;
\* CodeStart is where group(1) starts, 0 when the opening does not match
CodeStart(s, i) ==
  IF ~HasAt(s, i, <<FENCE>>) THEN 0
  ELSE IF HasAt(s, i + 1, <<"python", NL>>) THEN i + 3
  ELSE IF HasAt(s, i + 1, <<NL>>) THEN i + 2
  ELSE 0

\* the position of the '\n```' that closes the lazy group, 0 when none
CodeClose(s, i) ==
  IF CodeStart(s, i) = 0 THEN 0 ELSE Find(s, <<NL, FENCE>>, CodeStart(s, i))

RECURSIVE code_findall(_, _)
code_findall(s, i) ==
  IF i > Len(s) THEN <<>>
  ELSE IF CodeClose(s, i) # 0
       THEN <<Slice(s, CodeStart(s, i), CodeClose(s, i) - 1)>>
            \o code_findall(s, CodeClose(s, i) + 2)
       ELSE code_findall(s, i + 1)

extract_code_blocks(text) == code_findall(text, 1)

\* quote_pattern = r'^>\s*(.*?)$' matches at i
QuoteAt(s, i) == IsLineStart(s, i) /\ HasAt(s, i, <<">">>)

\* where group(1) starts: after the greedy '\s*'
QuoteTextStart(s, i) == SkipSpace(s, i + 1)

RECURSIVE quote_findall(_, _)
quote_findall(s, i) ==
  IF i > Len(s) THEN <<>>
  ELSE IF QuoteAt(s, i)
       THEN LET j == QuoteTextStart(s, i)
                e == LineEnd(s, j)
            IN <<Slice(s, j, e - 1)>> \o quote_findall(s, e)
       ELSE quote_findall(s, i + 1)

extract_quotes(text) == quote_findall(text, 1)

----------------------------------------------------------------------------
(* Structured-input variant *)

SlideHead == <<"#", "#", " ", "Slide", " ">>

\* the greedy '\d+': the first position at or after i that is not a digit
RECURSIVE SkipDigits(_, _)
SkipDigits(s, i) ==
  IF i <= Len(s) /\ s[i] \in Digits THEN SkipDigits(s, i + 1) ELSE i

\* '^## Slide \d+:' matches at i
SlideMarkAt(s, i) ==
  /\ IsLineStart(s, i)
  /\ HasAt(s, i, SlideHead)
  /\ SkipDigits(s, i + Len(SlideHead)) > i + Len(SlideHead)
  /\ HasAt(s, SkipDigits(s, i + Len(SlideHead)), <<":">>)

\* the lookahead (?=^## Slide \d+:|$) under re.MULTILINE holds at i
SlideLookahead(s, i) == SlideMarkAt(s, i) \/ AtLineEnd(s, i)

\* where the lazy '(.*?)' in front of the lookahead stops (re.DOTALL)
RECURSIVE SlideBodyEnd(_, _)
SlideBodyEnd(s, i) ==
  IF SlideLookahead(s, i) THEN i ELSE SlideBodyEnd(s, i + 1)

\* slide_pattern = r'^## Slide (\d+): (.*?)$(.*?)(?=^## Slide \d+:|$)'
SlideAt(s, i) ==
  /\ SlideMarkAt(s, i)
  /\ HasAt(s, SkipDigits(s, i + Len(SlideHead)), <<":", " ">>)

\* the three groups and the end of the match that starts at i
SlideMatch(s, i) ==
  LET d == SkipDigits(s, i + Len(SlideHead))
      e == LineEnd(s, d + 2)
      b == SlideBodyEnd(s, e)
  IN [num |-> Slice(s, i + Len(SlideHead), d - 1),
      title |-> Slice(s, d + 2, e - 1),
      content |-> Slice(s, e, b - 1),
      end |-> b]

RECURSIVE slide_findall(_, _)
slide_findall(s, i) ==
  IF i > Len(s) THEN <<>>
  ELSE IF SlideAt(s, i)
       THEN <<SlideMatch(s, i)>>
            \o slide_findall(s, IF SlideMatch(s, i).end > i
                                THEN SlideMatch(s, i).end ELSE i + 1)
       ELSE slide_findall(s, i + 1)

\* re.search(r'## Slide <n>: (.*?)$(.*?)(?=^## Slide \d+:|$)', s): the two
\* groups in a one-element sequence, or <<>> for None
slide_search(s, n) ==
  LET lit == SlideHead \o <<n, ":", " ">>
      p == Find(s, lit, 1)
      e == LineEnd(s, p + Len(lit))
      b == SlideBodyEnd(s, e)
  IN IF p = 0 THEN <<>>
     ELSE <<[title |-> Slice(s, p + Len(lit), e - 1),
             content |-> Slice(s, e, b - 1)]>>

\* re.findall(r'- (.*?)$', s, re.MULTILINE)
RECURSIVE item_findall(_, _)
item_findall(s, i) ==
  LET p == Find(s, <<"-", " ">>, i)
      e == LineEnd(s, p + 2)
  IN IF i > Len(s) \/ p = 0 THEN <<>>
     ELSE <<Slice(s, p + 2, e - 1)>> \o item_findall(s, e)

\* the first r'- Subtítulo: (.*?)$' of s, stripped, or '' when there is none
subtitle_line(s) ==
  LET lit == <<"-", " ", "Subtítulo", ":", " ">>
      p == Find(s, lit, 1)
  IN IF p = 0 THEN <<>>
     ELSE strip(Slice(s, p + Len(lit), LineEnd(s, p + Len(lit)) - 1))

structure_sections(text) ==
  LET slide_matches == slide_findall(text, 1)
      title_match == slide_search(text, "1")
      agenda_match == slide_search(text, "2")
      title_node ==
        IF title_match = <<>> THEN <<>>
        ELSE <<[type |-> "title",
                title |-> strip(title_match[1].title),
                subtitle |-> subtitle_line(strip(title_match[1].content))]>>
      agenda_node ==
        IF agenda_match = <<>> THEN <<>>
        ELSE <<[type |-> "agenda",
                title |-> strip(agenda_match[1].title),
                content |->
                  SelectSeq(item_findall(strip(agenda_match[1].content), 1),
                            LAMBDA item : /\ ~Contains(item, <<"Tópicos">>)
                                          /\ ~Contains(item, <<"Imagem">>))]>>
      rest == Slice(slide_matches, 3, Len(slide_matches))
  IN title_node \o agenda_node
     \o [k \in 1..Len(rest) |->
           [type |-> "content",
            title |-> strip(rest[k].title),
            content |-> strip(rest[k].content)]]

----------------------------------------------------------------------------
(* Rendering: the slides create_presentation builds from the node sequence *)

Take(s, n) == Slice(s, 1, IF Len(s) < n THEN Len(s) ELSE n)

MaxBullets == 5

MaxCodeLines == 8

\* the slide of one node of sections[1:]; a node of another type adds none
SlideOf(section) ==
  IF section.type = "agenda"
  THEN <<[layout |-> "agenda", title |-> section.title, items |-> section.content]>>
  ELSE IF section.type = "content"
  THEN <<[layout |-> "content",
          title |-> section.title,
          quote |-> Take(extract_quotes(section.content), 1),
          points |-> Take(extract_bullet_points(section.content), MaxBullets),
          code |->
            IF extract_code_blocks(section.content) = <<>> THEN <<>>
            ELSE Join(Take(str_split(extract_code_blocks(section.content)[1], <<NL>>),
                           MaxCodeLines))]>>
  ELSE <<>>

\* the exception sections[0]['title'] / sections[0]['subtitle'] raises
presentation_error(secs) ==
  IF secs = <<>> THEN "IndexError"
  ELSE IF "title" \notin DOMAIN secs[1] \/ "subtitle" \notin DOMAIN secs[1]
  THEN "KeyError"
  ELSE "none"

presentation_slides(secs) ==
  <<[layout |-> "title", title |-> secs[1].title, subtitle |-> secs[1].subtitle]>>
  \o Flatten([k \in 1..(Len(secs) - 1) |-> SlideOf(secs[k + 1])])
  \o <<[layout |-> "final"]>>

----------------------------------------------------------------------------
(* Inputs *)

\* the lines free-form documents are built from
DocLines ==
  { <<"#", " ", "T">>,
    <<"#", " ", "U">>,
    <<"#", "#", " ", "A">>,
    <<"#", "#", " ", "B">>,
    <<"#", "#", " ", "Introdução">>,
    <<"#", "#", " ", "Conclusão">>,
    <<"#", "#", " ", "Pré-requisitos", " ", "A">>,
    <<"#", "#", " ">>,
    <<"#", "#", "#", " ", "s">>,
    <<"x">>,
    <<>> }

\* the lines pre-numbered slide outlines are built from
StructLines ==
  { <<"#", "#", " ", "Slide", " ", "1", ":", " ", "T">>,
    <<"#", "#", " ", "Slide", " ", "2", ":", " ", "G">>,
    <<"#", "#", " ", "Slide", " ", "3", ":", " ", "C">>,
    <<"#", "#", " ", "Slide", " ", "4", ":", " ", "D">>,
    <<"-", " ", "Subtítulo", ":", " ", "S">>,
    <<"-", " ", "i">>,
    <<"-", " ", "Tópicos">>,
    <<"x">> }

\* the lines section bodies are built from
BodyLines ==
  { <<"-", " ", "a">>,
    <<"-", " ">>,
    <<"*", " ", "b">>,
    <<"x">>,
    <<>>,
    <<"#", " ", "h">>,
    <<">", " ", "q">>,
    <<">">>,
    <<" ", ">", " ", "q">>,
    <<FENCE>>,
    <<FENCE, "python">>,
    <<FENCE, "bash">>,
    <<LongWord>> }

\* the texts of at most max lines drawn from lines
TextsOf(lines, max) ==
  {Join(f) : f \in UNION {[1..n -> lines] : n \in 0..max}}

DocTexts == TextsOf(DocLines, MaxDocLines)

StructTexts == TextsOf(StructLines, MaxStructLines)

BodyTexts == TextsOf(BodyLines, MaxBodyLines)

NoCover == [title |-> <<>>, subtitle |-> <<>>]

----------------------------------------------------------------------------
(* The entry operations *)

\* the input path does not exist, under a check that never fires
input_missing_never(exists) == FALSE

\* not os.path.exists(path)
input_missing(exists) == ~exists

Init ==
  /\ op \in {"md", "structure", "pdf"}
  /\ pc = "start"
  /\ fileExists \in BOOLEAN
  /\ content \in (IF ~fileExists THEN {<<>>}
                  ELSE IF op = "structure" THEN StructTexts ELSE DocTexts)
  /\ opened = 0
  /\ sections = <<>>
  /\ slides = <<>>
  /\ cover = NoCover
  /\ written = FALSE
  /\ error = "none"
  /\ bullet_points = <<>>
  /\ quotes = <<>>
  /\ code_blocks = <<>>

\* the existence check that opens each entry operation
CheckInput ==
  IF input_missing(fileExists)
  THEN /\ pc' = "error"
       /\ error' = "FileNotFoundError"
  ELSE /\ pc' = "extract"
       /\ error' = error

md_to_slides ==
  /\ op = "md"
  /\ pc = "start"
  /\ CheckInput
  /\ UNCHANGED <<op, fileExists, content, opened, sections, slides, cover,
                 written, bullet_points, quotes, code_blocks>>

structure_to_slides ==
  /\ op = "structure"
  /\ pc = "start"
  /\ CheckInput
  /\ UNCHANGED <<op, fileExists, content, opened, sections, slides, cover,
                 written, bullet_points, quotes, code_blocks>>

create_oreilly_style_pdf ==
  /\ op = "pdf"
  /\ pc = "start"
  /\ CheckInput
  /\ UNCHANGED <<op, fileExists, content, opened, sections, slides, cover,
                 written, bullet_points, quotes, code_blocks>>

\* md_to_slides calls extract_sections_from_md, which opens and reads the file
ExtractSectionsFromMd ==
  /\ op = "md"
  /\ pc = "extract"
  /\ opened' = opened + 1
  /\ sections' = extract_sections_from_md(content)
  /\ pc' = "present"
  /\ UNCHANGED <<op, fileExists, content, slides, cover, written, error,
                 bullet_points, quotes, code_blocks>>

\* create_slides_from_structure opens and reads the file and builds the nodes
CreateSlidesFromStructure ==
  /\ op = "structure"
  /\ pc = "extract"
  /\ opened' = opened + 1
  /\ sections' = structure_sections(content)
  /\ pc' = "present"
  /\ UNCHANGED <<op, fileExists, content, slides, cover, written, error,
                 bullet_points, quotes, code_blocks>>

\* create_presentation builds the slides from the nodes and saves the file
create_presentation ==
  /\ pc = "present"
  /\ IF presentation_error(sections) # "none"
     THEN /\ error' = presentation_error(sections)
          /\ pc' = "error"
          /\ UNCHANGED <<slides, written>>
     ELSE /\ slides' = presentation_slides(sections)
          /\ written' = TRUE
          /\ pc' = "done"
          /\ error' = error
  /\ UNCHANGED <<op, fileExists, content, opened, sections, cover,
                 bullet_points, quotes, code_blocks>>

\* create_oreilly_style_pdf reads the file, builds the cover and writes the PDF
WritePdf ==
  /\ op = "pdf"
  /\ pc = "extract"
  /\ opened' = opened + 1
  /\ cover' = pdf_cover(content)
  /\ written' = TRUE
  /\ pc' = "done"
  /\ UNCHANGED <<op, fileExists, content, sections, slides, error,
                 bullet_points, quotes, code_blocks>>

Next ==
  \/ md_to_slides
  \/ structure_to_slides
  \/ create_oreilly_style_pdf
  \/ ExtractSectionsFromMd
  \/ CreateSlidesFromStructure
  \/ create_presentation
  \/ WritePdf

Spec == Init /\ [][Next]_vars

----------------------------------------------------------------------------
(* The fragment classifier applied to one section body, in the order       *)
(* create_presentation calls it                                            *)

InitFragments ==
  /\ op = "classify"
  /\ pc = "bullets"
  /\ fileExists = TRUE
  /\ content \in BodyTexts
  /\ opened = 0
  /\ sections = <<>>
  /\ slides = <<>>
  /\ cover = NoCover
  /\ written = FALSE
  /\ error = "none"
  /\ bullet_points = <<>>
  /\ quotes = <<>>
  /\ code_blocks = <<>>

ExtractBulletPoints ==
  /\ pc = "bullets"
  /\ bullet_points' = extract_bullet_points(content)
  /\ pc' = "quotes"
  /\ UNCHANGED <<op, fileExists, content, opened, sections, slides, cover,
                 written, error, quotes, code_blocks>>

ExtractQuotes ==
  /\ pc = "quotes"
  /\ quotes' = extract_quotes(content)
  /\ pc' = "code"
  /\ UNCHANGED <<op, fileExists, content, opened, sections, slides, cover,
                 written, error, bullet_points, code_blocks>>

ExtractCodeBlocks ==
  /\ pc = "code"
  /\ code_blocks' = extract_code_blocks(content)
  /\ pc' = "classified"
  /\ UNCHANGED <<op, fileExists, content, opened, sections, slides, cover,
                 written, error, bullet_points, quotes>>

NextFragments == ExtractBulletPoints \/ ExtractQuotes \/ ExtractCodeBlocks

SpecFragments == InitFragments /\ [][NextFragments]_vars

----------------------------------------------------------------------------
(* Properties of the outline extractor (specification Spec)                *)

\* extract_sections_from_md has returned
Extracted == op = "md" /\ pc \in {"present", "done"}

\* the lines of a text
LinesOf(text) == str_split(text, <<NL>>)

\* the texts of the lines of text that start with prefix, in document order
LineTexts(text, prefix) ==
  LET hs == SelectSeq(LinesOf(text), LAMBDA l : startswith(l, prefix))
  IN [k \in 1..Len(hs) |-> Slice(hs[k], Len(prefix) + 1, Len(hs[k]))]

ContentNodes == Slice(sections, 3, Len(sections))

\* C1: the node sequence of extract_sections_from_md starts with a Title node
\* and an Agenda node, every later node is a Content node, and a text
\* without a line starting with '# ' gets the default title 'Apresentação'.
C1_TitleAgendaFirst ==
  Extracted =>
    /\ Len(sections) >= 2
    /\ sections[1].type = "title"
    /\ sections[2].type = "agenda"
    /\ \A k \in 3..Len(sections) : sections[k].type = "content"
    /\ (LineTexts(content, <<"#", " ">>) = <<>>
          => sections[1].title = <<"Apresentação">>)

\* a text without level-1 heading was extracted and has Content nodes
C1_Witness ==
  /\ Extracted
  /\ LineTexts(content, <<"#", " ">>) = <<>>
  /\ sections[1].title = <<"Apresentação">>
  /\ Len(sections) > 2

\* the level-2 headings of a text: where each starts
H2Starts(text) == HeadingStarts(text, h2_pattern, 1)

\* the text after the j-th level-2 heading line, up to the next level-2
\* heading line or the end of the text
OwnBody(text, j) ==
  LET starts == H2Starts(text)
  IN Slice(text, HeadingEnd(text, h2_pattern, starts[j]),
           IF j = Len(starts) THEN Len(text) ELSE starts[j + 1] - 1)

\* the text after the i-th level-3 heading line of body, up to the next
\* level-3 heading line or the end of body
OwnSubBody(body, i) ==
  LET starts == HeadingStarts(body, h3_pattern, 1)
  IN Slice(body, HeadingEnd(body, h3_pattern, starts[i]),
           IF i = Len(starts) THEN Len(body) ELSE starts[i + 1] - 1)

\* the ways to cut the m Content nodes into n consecutive groups, one per
\* level-2 heading in document order: cut[j] is where group j ends
Cuts(n, m) ==
  {cut \in [0..n -> 0..m] :
     /\ cut[0] = 0
     /\ cut[n] = m
     /\ \A j \in 1..n : cut[j - 1] <= cut[j]}

\* C2: every level-2 heading whose body has no level-3 heading line yields
\* exactly one Content node, with the heading's text as title and the
\* heading's own body as content, Content nodes being in heading order.
C2_OneNodePerPlainSection ==
  Extracted =>
    LET titles == LineTexts(content, <<"#", "#", " ">>)
        n == Len(titles)
        nodes == ContentNodes
    IN \E cut \in Cuts(n, Len(nodes)) :
         \A j \in 1..n :
           LineTexts(OwnBody(content, j), <<"#", "#", "#", " ">>) = <<>>
             => /\ cut[j] = cut[j - 1] + 1
                /\ nodes[cut[j]].title = titles[j]
                /\ nodes[cut[j]].content = OwnBody(content, j)

\* C3: every level-2 heading whose body has k >= 1 level-3 heading lines
\* yields exactly k Content nodes, the i-th titled '<level-2> - <level-3>'
\* and holding the text after the i-th level-3 heading line up to the next
\* one or the end of the body.
C3_OneNodePerSubsection ==
  Extracted =>
    LET titles == LineTexts(content, <<"#", "#", " ">>)
        n == Len(titles)
        nodes == ContentNodes
    IN \E cut \in Cuts(n, Len(nodes)) :
         \A j \in 1..n :
           LET subs == LineTexts(OwnBody(content, j), <<"#", "#", "#", " ">>)
           IN subs # <<>>
                => /\ cut[j] = cut[j - 1] + Len(subs)
                   /\ \A i \in 1..Len(subs) :
                        /\ nodes[cut[j - 1] + i].title
                             = titles[j] \o <<" ", "-", " ">> \o subs[i]
                        /\ nodes[cut[j - 1] + i].content
                             = OwnSubBody(OwnBody(content, j), i)

\* the agenda items the level-2 heading lines prescribe
ExpectedAgenda(text) ==
  SelectSeq(LineTexts(text, <<"#", "#", " ">>),
            LAMBDA t : /\ t # <<"Introdução">>
                       /\ t # <<"Conclusão">>
                       /\ \A k \in 1..Len(t) : t[k] # "Pré-requisitos")

\* C4: the Agenda items are the level-2 heading texts in document order,
\* duplicates kept, minus 'Introdução', 'Conclusão' and every text that
\* contains 'Pré-requisitos'; their number is the number of level-2
\* headings minus the number of excluded ones.
C4_AgendaItems ==
  Extracted =>
    LET all == LineTexts(content, <<"#", "#", " ">>)
        excluded == {k \in 1..Len(all) :
                       \/ all[k] \in {<<"Introdução">>, <<"Conclusão">>}
                       \/ \E i \in 1..Len(all[k]) : all[k][i] = "Pré-requisitos"}
    IN /\ sections[2].content = ExpectedAgenda(content)
       /\ Len(sections[2].content) = Len(all) - Cardinality(excluded)

\* a text with a repeated heading and a heading excluded as a substring
C4_Witness ==
  /\ Extracted
  /\ Len(LineTexts(content, <<"#", "#", " ">>)) = 3
  /\ Len(sections[2].content) = 2
  /\ sections[2].content[1] = sections[2].content[2]
  /\ Contains(content, <<"Pré-requisitos">>)

\* the subtitle the two-step fallback prescribes
ExpectedSubtitle(text) ==
  LET h1 == LineTexts(text, <<"#", " ">>)
      h2 == LineTexts(text, <<"#", "#", " ">>)
  IN IF Len(h1) > 1 THEN h1[2]
     ELSE IF h2 # <<>> THEN h2[1]
     ELSE <<>>

\* C5: the subtitle is the second level-1 heading when the text has more
\* than one level-1 heading line, else the first level-2 heading, else
\* empty; the same holds of the cover subtitle of create_oreilly_style_pdf.
C5_SubtitleFallback ==
  /\ Extracted => sections[1].subtitle = ExpectedSubtitle(content)
  /\ (op = "pdf" /\ pc = "done") => cover.subtitle = ExpectedSubtitle(content)

GroupOf(ends, k) == 1 + Cardinality({e \in ends : e < k})

----------------------------------------------------------------------------
(* Properties of the entry operations (specification Spec)                 *)

\* C6: when the input path does not exist, each entry operation stops in
\* the FileNotFoundError state with the input never opened, no extraction
\* result and no output written, and does not go on from there.
C6_MissingInputStopsFirst ==
  ~fileExists =>
    /\ pc \in {"start", "error"}
    /\ (pc = "error" => error = "FileNotFoundError")
    /\ opened = 0
    /\ sections = <<>>
    /\ slides = <<>>
    /\ cover = NoCover
    /\ ~written

\* the structured-input operation has stopped on a missing input
C6_Witness ==
  /\ ~fileExists
  /\ op = "structure"
  /\ pc = "error"
  /\ error = "FileNotFoundError"

\* C7: for an existing input file, neither md_to_slides nor
\* structure_to_slides reaches an error state, whatever the text.
C7_ParsingNeverFails ==
  (fileExists /\ op \in {"md", "structure"}) =>
    /\ error = "none"
    /\ pc # "error"

----------------------------------------------------------------------------
(* Properties of the structured-input variant (specification Spec)         *)

\* create_slides_from_structure has built its node sequence
Structured == op = "structure" /\ pc \in {"present", "done", "error"} /\ fileExists

\* where the slide number of a '## Slide <n>: <title>' line ends
NumEnd(line) == SkipDigits(line, Len(SlideHead) + 1)

\* the line is a heading '## Slide <n>: <title>'
IsSlideLine(line) ==
  /\ startswith(line, SlideHead)
  /\ NumEnd(line) > Len(SlideHead) + 1
  /\ HasAt(line, NumEnd(line), <<":", " ">>)

SlideNum(line) == Slice(line, Len(SlideHead) + 1, NumEnd(line) - 1)

SlideTitle(line) == strip(Slice(line, NumEnd(line) + 2, Len(line)))

\* the indices of the slide heading lines, in document order
SlideLines(lines) ==
  SelectSeq([k \in 1..Len(lines) |-> k], LAMBDA k : IsSlideLine(lines[k]))

\* the first line at or after k that is a slide heading, or Len(lines) + 1
RECURSIVE NextSlideLine(_, _)
NextSlideLine(lines, k) ==
  IF k > Len(lines) \/ IsSlideLine(lines[k]) THEN k
  ELSE NextSlideLine(lines, k + 1)

\* the body of the slide whose heading is line h: the lines after it up to
\* the next slide heading or the end of the text
SlideBody(lines, h) == Join(Slice(lines, h + 1, NextSlideLine(lines, h + 1) - 1))

\* the slide heading lines with number num
SlidesNumbered(lines, num) ==
  SelectSeq(SlideLines(lines), LAMBDA h : SlideNum(lines[h]) = num)

\* the nodes of one type, in order
NodesOfType(t) == SelectSeq(sections, LAMBDA node : node.type = t)

\* C12: when the text has a '## Slide 1: <title>' heading, the Title node
\* has that title and its subtitle is the <text> of the line
\* '- Subtítulo: <text>' of the slide's body, empty only without that line.
C12_SubtitleFromSlide1 ==
  Structured =>
    LET lines == LinesOf(content)
        ones == SlidesNumbered(lines, <<"1">>)
        subs == LineTexts(SlideBody(lines, ones[1]),
                          <<"-", " ", "Subtítulo", ":", " ">>)
    IN ones # <<>> =>
         /\ sections # <<>>
         /\ sections[1].type = "title"
         /\ sections[1].title = SlideTitle(lines[ones[1]])
         /\ sections[1].subtitle = (IF subs # <<>> THEN strip(subs[1]) ELSE <<>>)

\* C13: the Agenda node built from '## Slide 2: <title>' lists the texts of
\* the '- <text>' lines of slide 2's body in document order, without the
\* lines that contain 'Tópicos' or 'Imagem'.
C13_AgendaFromSlide2 ==
  Structured =>
    LET lines == LinesOf(content)
        twos == SlidesNumbered(lines, <<"2">>)
        items == SelectSeq(LineTexts(SlideBody(lines, twos[1]), <<"-", " ">>),
                           LAMBDA t : \A k \in 1..Len(t) :
                                        t[k] \notin {"Tópicos", "Imagem"})
    IN twos # <<>> =>
         /\ Len(NodesOfType("agenda")) = 1
         /\ NodesOfType("agenda")[1].title = SlideTitle(lines[twos[1]])
         /\ NodesOfType("agenda")[1].content = items

\* C14: every Content node carries a slide verbatim: the title of its
\* '## Slide <n>: <title>' heading and, as content, the trimmed body between
\* that heading and the next slide heading or the end of the text.
C14_ContentVerbatim ==
  Structured =>
    LET lines == LinesOf(content)
        hs == SlideLines(lines)
        nodes == NodesOfType("content")
    IN \A k \in 1..Len(nodes) :
         \E i \in 1..Len(hs) :
           /\ nodes[k].title = SlideTitle(lines[hs[i]])
           /\ nodes[k].content = strip(SlideBody(lines, hs[i]))

\* C15: the Content nodes are the slides numbered other than 1 and 2, one
\* node per heading in document order, wherever the slides stand in the
\* text and whether or not Slide 1 or Slide 2 is present.
C15_ContentByNumber ==
  Structured =>
    LET lines == LinesOf(content)
        others == SelectSeq(SlideLines(lines),
                            LAMBDA h : SlideNum(lines[h]) \notin {<<"1">>, <<"2">>})
        nodes == NodesOfType("content")
    IN /\ Len(nodes) = Len(others)
       /\ \A k \in 1..Len(nodes) : nodes[k].title = SlideTitle(lines[others[k]])

----------------------------------------------------------------------------
(* Properties of the fragment classifier (specification SpecFragments)     *)

\* a line that opens a fenced block: three backticks, then at most a tag
Opens(line) ==
  /\ line # <<>>
  /\ line[1] = FENCE
  /\ Len(line) <= 2
  /\ \A k \in 2..Len(line) : line[k] \notin Whitespace \cup {FENCE}

\* the fenced blocks of a sequence of lines: from is the first line to
\* look at, open the opening line of the current block or 0
RECURSIVE FencedBlocks(_, _, _)
FencedBlocks(lines, from, open) ==
  IF from > Len(lines) THEN <<>>
  ELSE IF open = 0
       THEN FencedBlocks(lines, from + 1, IF Opens(lines[from]) THEN from ELSE 0)
       ELSE IF lines[from] = <<FENCE>>
            THEN <<Join(Slice(lines, open + 1, from - 1))>>
                 \o FencedBlocks(lines, from + 1, 0)
            ELSE FencedBlocks(lines, from + 1, open)

\* C8: extract_code_blocks returns one entry per fenced block, in document
\* order: the inner lines of every block opened by a line of three
\* backticks with or without a language tag and closed by a line of three
\* backticks; no fenced block gives the empty list.
C8_CodeBlocks ==
  pc = "classified" => code_blocks = FencedBlocks(LinesOf(content), 1, 0)

\* a line's leading blanks removed
RECURSIVE LineLstrip(_)
LineLstrip(line) ==
  IF line # <<>> /\ Head(line) \in {" ", "\t"} THEN LineLstrip(Tail(line)) ELSE line

\* the quote lines of a text, each without its '>' and one following space
QuoteLines(text) ==
  LET qs == SelectSeq(LinesOf(text), LAMBDA l : startswith(LineLstrip(l), <<">">>))
      entry(l) ==
        LET r == Tail(LineLstrip(l))
        IN IF r # <<>> /\ Head(r) = " " THEN Tail(r) ELSE r
  IN [k \in 1..Len(qs) |-> entry(qs[k])]

\* C9: extract_quotes returns one entry per line that begins with '>'
\* after its leading whitespace, in document order, each being the line
\* without the '>' and one following space; an indented '>' line counts
\* and a bare '>' line gives an empty entry of its own.
C9_Quotes ==
  pc \in {"code", "classified"} => quotes = QuoteLines(content)

\* a line that is a list item: a marker followed by a blank
IsMarkerLine(line) ==
  LET l == LineLstrip(line)
  IN Len(l) >= 2 /\ l[1] \in {"*", "-", "+"} /\ l[2] \in {" ", "\t"}

\* the texts of the list items of a text
MarkerTexts(text) ==
  LET ms == SelectSeq(LinesOf(text), IsMarkerLine)
  IN [k \in 1..Len(ms) |-> LineLstrip(Tail(LineLstrip(ms[k])))]

\* the short paragraphs of a text
ShortParagraphs(text) ==
  LET ps == str_split(text, <<NL, NL>>)
      trimmed == SelectSeq([k \in 1..Len(ps) |-> strip(ps[k])], LAMBDA p : p # <<>>)
  IN SelectSeq(trimmed, LAMBDA p : StrLen(p) < 200 /\ Head(p) # "#")

\* C10: on the body without its fenced blocks, extract_bullet_points
\* returns the texts of the list-marker lines when there is at least one,
\* and otherwise the trimmed blank-line-delimited paragraphs under 200
\* characters that do not start with '#'; never entries of both.
C10_BulletsOrParagraphs ==
  pc \in {"quotes", "code", "classified"} =>
    LET body == remove_code(content)
    IN IF MarkerTexts(body) # <<>>
       THEN bullet_points = MarkerTexts(body)
       ELSE bullet_points = ShortParagraphs(body)

====
